---- MODULE Spec2Model ----
(***************************************************************************)
(* capture_downstreams.py: read a dvbv5 channel file, capture every mux    *)
(* with dvbv5-zap and (in filtered mode) filter the capture by PID with    *)
(* tshark.                                                                 *)
(*                                                                         *)
(* Text that the program formats or parses (numbers, filter expressions,   *)
(* DELIVERY_SYSTEM) is a sequence of one-character strings, so that the    *)
(* conversions are computed and not assumed.                               *)
(***************************************************************************)
EXTENDS Integers, Sequences, FiniteSets, TLC

VARIABLES
    pc,            \* position of the running call, "idle" when there is none
    mode,          \* "raw" | "filtered" | "none"
    args,          \* arguments of the running call
    filter_str,    \* local filter_str of dvb_record_filtered_channels
    gen,           \* the read_channels generator object
    channel,       \* loop variable of the for statement
    tmp_ts,        \* content of the file tmp.ts on disk (persists between calls)
    tmp0,          \* content of tmp.ts when the running call started
    log,           \* what the running call did, in order
    created,       \* files written by the running call
    removed,       \* files removed by the running call
    result,        \* "running", "returned" or the exception that left the call
    printed,       \* what the running call printed on stdout
    yielded,       \* channels a consumer of read_channels has received
    sel,           \* PID list given to the filter builder
    keep_expr,     \* filter built with sel as pids
    exclude_expr,  \* filter built with sel as skip_pids
    argv,          \* command line of the script
    ns,            \* argparse Namespace
    kwargs,        \* keyword arguments of args.func(...)
    bound,         \* the parameters of the called function after binding
    cmd_t          \* the '-t' argument of the capture command

orch_vars == <<pc, mode, args, filter_str, gen, channel, tmp_ts, tmp0, log,
               created, removed, result, printed>>
read_vars == <<yielded>>
filt_vars == <<sel, keep_expr, exclude_expr>>
cli_vars  == <<argv, ns, kwargs, bound, cmd_t>>
vars == <<orch_vars, read_vars, filt_vars, cli_vars>>

(***************************************************************************)
(* Bounds of the model.                                                    *)
(***************************************************************************)
MaxPids == 2          \* longest PID list given to the filter builder
MaxSections == 2      \* most sections of a channel file (orchestrator)
MaxReadSections == 2  \* most sections of a channel file (reader alone)

(***************************************************************************)
(* Text helpers.                                                           *)
(***************************************************************************)
None == <<"<None>">>        \* Python's None where a text or list is expected
Unset == <<"<unset>">>      \* a variable not assigned yet

HexDigits == <<"0","1","2","3","4","5","6","7","8","9","a","b","c","d","e","f">>
DecDigits == <<"0","1","2","3","4","5","6","7","8","9">>
UpperCase == <<"A","B","C","D","E","F","G","H","I","J","K","L","M",
               "N","O","P","Q","R","S","T","U","V","W","X","Y","Z">>
LowerCase == <<"a","b","c","d","e","f","g","h","i","j","k","l","m",
               "n","o","p","q","r","s","t","u","v","w","x","y","z">>

RECURSIVE hex(_)
hex(n) ==
    IF n < 16 THEN <<HexDigits[n + 1]>>
    ELSE hex(n \div 16) \o <<HexDigits[(n % 16) + 1]>>

\* format(p, "02x"): sign, lowercase hex digits, zero-padded to width 2
format_02x_unpadded(p) == IF p < 0 THEN <<"-">> \o hex(-p) ELSE hex(p)
format_02x(p) ==
    LET body == IF p < 0 THEN <<"-">> \o hex(-p) ELSE hex(p)
    IN IF Len(body) < 2 THEN <<"0">> \o body ELSE body

RECURSIVE str_int(_)
str_int(n) ==
    IF n < 0 THEN <<"-">> \o str_int(-n)
    ELSE IF n < 10 THEN <<DecDigits[n + 1]>>
    ELSE str_int(n \div 10) \o <<DecDigits[(n % 10) + 1]>>

RECURSIVE join(_, _)
join(sep, parts) ==
    IF parts = <<>> THEN <<>>
    ELSE IF Len(parts) = 1 THEN parts[1]
    ELSE parts[1] \o sep \o join(sep, Tail(parts))

(***************************************************************************)
(* pid_filter and the choice of the filter in                              *)
(* dvb_record_filtered_channels.                                           *)
(***************************************************************************)
OrSep == <<" ", "|", "|", " ">>
PredOpen == <<"(", "m", "p", "2", "t", ".", "p", "i", "d", " ", "=", "=", " ", "0", "x">>
PredClose == <<")">>

pid_filter(pids) ==
    join(OrSep, [i \in 1..Len(pids) |-> PredOpen \o format_02x(pids[i]) \o PredClose])

AbortMessage == "--skip_pid and --pid were both used at the same time, this is not possible, aborting"

\* lines 107-115: [abort, filter_str]
select_filter_no_check(skip_pids, pids) ==
    IF skip_pids # <<>>
    THEN [abort |-> FALSE, filter_str |-> <<"!", "(">> \o pid_filter(skip_pids) \o <<")">>]
    ELSE [abort |-> FALSE, filter_str |-> <<"(">> \o pid_filter(pids) \o <<")">>]
select_filter_bare_not(skip_pids, pids) ==
    IF skip_pids # <<>> /\ pids # <<>>
    THEN [abort |-> TRUE, filter_str |-> <<>>]
    ELSE IF skip_pids # <<>>
    THEN [abort |-> FALSE, filter_str |-> <<"!">> \o pid_filter(skip_pids)]
    ELSE [abort |-> FALSE, filter_str |-> <<"(">> \o pid_filter(pids) \o <<")">>]
select_filter(skip_pids, pids) ==
    IF skip_pids # <<>> /\ pids # <<>>
    THEN [abort |-> TRUE, filter_str |-> <<>>]
    ELSE IF skip_pids # <<>>
    THEN [abort |-> FALSE, filter_str |-> <<"!", "(">> \o pid_filter(skip_pids) \o <<")">>]
    ELSE [abort |-> FALSE, filter_str |-> <<"(">> \o pid_filter(pids) \o <<")">>]

(***************************************************************************)
(* The channel file as configparser sees it: sections in source order,     *)
(* each a name and the value text of every key it holds (Missing for a     *)
(* key it does not hold).                                                  *)
(***************************************************************************)
Missing == <<"<missing>">>
Keys == {"DELIVERY_SYSTEM", "FREQUENCY", "SYMBOL_RATE", "INNER_FEC", "MODULATION", "INVERSION"}
DefaultSection == "DEFAULT"     \* configparser.DEFAULTSECT
NoOptions == [k \in Keys |-> Missing]

\* str.lower()
lower(s) ==
    [i \in 1..Len(s) |->
        IF \E k \in 1..26 : UpperCase[k] = s[i]
        THEN LowerCase[CHOOSE k \in 1..26 : UpperCase[k] = s[i]]
        ELSE s[i]]

\* int(text): optional sign, decimal digits, single underscores between digits
IsDigit(c) == \E d \in 1..10 : DecDigits[d] = c
DigitValue(c) == (CHOOSE d \in 1..10 : DecDigits[d] = c) - 1
int_body(s) == IF s # <<>> /\ s[1] \in {"+", "-"} THEN Tail(s) ELSE s
int_ok(s) ==
    LET b == int_body(s)
    IN /\ b # <<>>
       /\ \A i \in 1..Len(b) :
            \/ IsDigit(b[i])
            \/ /\ b[i] = "_"
               /\ 1 < i /\ i < Len(b)
               /\ IsDigit(b[i - 1]) /\ IsDigit(b[i + 1])
RECURSIVE digits_value(_, _)
digits_value(b, acc) ==
    IF b = <<>> THEN acc
    ELSE IF b[1] = "_" THEN digits_value(Tail(b), acc)
    ELSE digits_value(Tail(b), acc * 10 + DigitValue(b[1]))
int(s) ==
    LET v == digits_value(int_body(s), 0)
    IN IF s[1] = "-" THEN -v ELSE v

\* config.read_file(channels), strict: the sections in order, the defaults,
\* or the error of the first repeated section (or repeated DEFAULT option)
EmptyParse == [error |-> "none", names |-> <<>>, options |-> <<>>, defaults |-> NoOptions]
RECURSIVE read_file_from(_, _, _)
read_file_from(text, i, acc) ==
    IF i > Len(text) THEN acc
    ELSE LET s == text[i] IN
      IF s.name = DefaultSection
      THEN IF \E k \in Keys : s.options[k] # Missing /\ acc.defaults[k] # Missing
           THEN [acc EXCEPT !.error = "DuplicateOptionError"]
           ELSE read_file_from(text, i + 1,
                  [acc EXCEPT !.defaults =
                      [k \in Keys |-> IF s.options[k] # Missing
                                      THEN s.options[k] ELSE acc.defaults[k]]])
      ELSE IF \E j \in 1..Len(acc.names) : acc.names[j] = s.name
           THEN [acc EXCEPT !.error = "DuplicateSectionError"]
           ELSE read_file_from(text, i + 1,
                  [acc EXCEPT !.names = Append(acc.names, s.name),
                              !.options = Append(acc.options, s.options)])
read_file(text) == read_file_from(text, 1, EmptyParse)

\* config.sections(): DEFAULT is not among them
sections(config) == config.names

\* channel[key] of the i-th section: the section's value, else the default
has_option(config, i, key) ==
    config.options[i][key] # Missing \/ config.defaults[key] # Missing
option(config, i, key) ==
    IF config.options[i][key] # Missing THEN config.options[i][key]
    ELSE config.defaults[key]

\* lines 52-60: Channel(...) of the i-th section, the arguments evaluated in
\* order; the first failing one raises
NoChannel == [name |-> "", delivery_system |-> None, frequency |-> 0,
              symbol_rate |-> 0, inner_fec |-> None, modulation |-> None,
              inversion |-> None]
channel_error(config, i) ==
    IF ~has_option(config, i, "DELIVERY_SYSTEM") THEN "KeyError"
    ELSE IF ~has_option(config, i, "FREQUENCY") THEN "KeyError"
    ELSE IF ~int_ok(option(config, i, "FREQUENCY")) THEN "ValueError"
    ELSE IF ~has_option(config, i, "SYMBOL_RATE") THEN "KeyError"
    ELSE IF ~int_ok(option(config, i, "SYMBOL_RATE")) THEN "ValueError"
    ELSE IF ~has_option(config, i, "INNER_FEC") THEN "KeyError"
    ELSE IF ~has_option(config, i, "MODULATION") THEN "KeyError"
    ELSE IF ~has_option(config, i, "INVERSION") THEN "KeyError"
    ELSE "none"
Channel(config, i) ==
    [name |-> sections(config)[i],
     delivery_system |-> lower(option(config, i, "DELIVERY_SYSTEM")),
     frequency |-> int(option(config, i, "FREQUENCY")),
     symbol_rate |-> int(option(config, i, "SYMBOL_RATE")),
     inner_fec |-> option(config, i, "INNER_FEC"),
     modulation |-> option(config, i, "MODULATION"),
     inversion |-> option(config, i, "INVERSION")]

\* The generator object of read_channels: nothing runs until the first next()
NoGenerator == [state |-> "none", config |-> EmptyParse, at |-> 0]
NewGenerator == [state |-> "created", config |-> EmptyParse, at |-> 0]
ClosedGenerator == [state |-> "closed", config |-> EmptyParse, at |-> 0]

\* next(generator): [gen, raised, stop, value]
read_channels(g, text) ==
    LET config == IF g.state = "created" THEN read_file(text) ELSE g.config
        i == g.at + 1
    IN IF g.state = "closed"
       THEN [gen |-> g, raised |-> "none", stop |-> TRUE, value |-> NoChannel]
       ELSE IF config.error # "none"
       THEN [gen |-> ClosedGenerator, raised |-> config.error, stop |-> FALSE,
             value |-> NoChannel]
       ELSE IF i > Len(sections(config))
       THEN [gen |-> ClosedGenerator, raised |-> "none", stop |-> TRUE,
             value |-> NoChannel]
       ELSE IF channel_error(config, i) # "none"
       THEN [gen |-> ClosedGenerator, raised |-> channel_error(config, i),
             stop |-> FALSE, value |-> NoChannel]
       ELSE [gen |-> [state |-> "suspended", config |-> config, at |-> i],
             raised |-> "none", stop |-> FALSE, value |-> Channel(config, i)]

(***************************************************************************)
(* Inputs.                                                                 *)
(***************************************************************************)
PidValues == {0, 17, 255, 256, 8191, -1}
PacketPids == {0, 1, 17, 255, 256, 8191}
SeqsUpTo(S, n) == UNION {[1..m -> S] : m \in 0..n}
PidLists == SeqsUpTo(PidValues, MaxPids)

(***************************************************************************)
(* Reading a filter expression the way the filter tool does: '!' binds     *)
(* tighter than '||', parentheses group, a comparison tests the packet's   *)
(* PID against a hexadecimal literal.                                      *)
(***************************************************************************)
Range(s) == {s[i] : i \in 1..Len(s)}
Distinct(s) == \A i, j \in 1..Len(s) : i # j => s[i] # s[j]
IsPrefix(p, s) == Len(p) <= Len(s) /\ SubSeq(s, 1, Len(p)) = p
Depth(s, i) ==
    Cardinality({j \in 1..i : s[j] = "("}) - Cardinality({j \in 1..i : s[j] = ")"})
TopLevelOrs(s) ==
    {i \in 1..Len(s) : /\ i + Len(OrSep) - 1 <= Len(s)
                       /\ SubSeq(s, i, i + Len(OrSep) - 1) = OrSep
                       /\ Depth(s, i - 1) = 0}
RECURSIVE Disjuncts(_)
Disjuncts(s) ==
    IF TopLevelOrs(s) = {} THEN <<s>>
    ELSE LET i == CHOOSE k \in TopLevelOrs(s) : \A h \in TopLevelOrs(s) : k <= h
         IN <<SubSeq(s, 1, i - 1)>> \o Disjuncts(SubSeq(s, i + Len(OrSep), Len(s)))
FieldText == <<"m", "p", "2", "t", ".", "p", "i", "d", " ", "=", "=", " ", "0", "x">>
IsHexDigit(c) == \E d \in 1..16 : HexDigits[d] = c
HexDigitValue(c) == (CHOOSE d \in 1..16 : HexDigits[d] = c) - 1
RECURSIVE HexValue(_, _)
HexValue(lit, acc) ==
    IF lit = <<>> THEN acc
    ELSE HexValue(Tail(lit), acc * 16 + HexDigitValue(lit[1]))
IsHexLiteral(lit) == lit # <<>> /\ \A i \in 1..Len(lit) : IsHexDigit(lit[i])
Literal(comparison) == SubSeq(comparison, Len(FieldText) + 1, Len(comparison))
RECURSIVE Admits(_, _)
Admits(e, pkt) ==
    IF e = <<>> THEN FALSE
    ELSE IF Len(Disjuncts(e)) > 1
    THEN \E i \in 1..Len(Disjuncts(e)) : Admits(Disjuncts(e)[i], pkt)
    ELSE IF e[1] = "!" THEN ~Admits(Tail(e), pkt)
    ELSE IF e[1] = "(" /\ e[Len(e)] = ")" THEN Admits(SubSeq(e, 2, Len(e) - 1), pkt)
    ELSE /\ IsPrefix(FieldText, e)
         /\ IsHexLiteral(Literal(e))
         /\ HexValue(Literal(e), 0) = pkt
\* the comparisons of a parenthesised disjunction "(" (c1) || (c2) ... ")"
Comparisons(e) ==
    LET inner == SubSeq(e, 2, Len(e) - 1)
        parts == IF inner = <<>> THEN <<>> ELSE Disjuncts(inner)
    IN [i \in 1..Len(parts) |-> SubSeq(parts[i], 2, Len(parts[i]) - 1)]

(***************************************************************************)
(* The filter builder alone: the filter of one PID list, once as pids and  *)
(* once as skip_pids.                                                      *)
(***************************************************************************)
OrchIdle ==
    /\ pc = "idle" /\ mode = "none" /\ args = <<>> /\ filter_str = <<>>
    /\ gen = NoGenerator /\ channel = NoChannel
    /\ tmp_ts = "absent" /\ tmp0 = "absent" /\ log = <<>>
    /\ created = {} /\ removed = {} /\ result = "none" /\ printed = <<>>
ReadIdle == yielded = <<>>
FiltIdle == sel = <<>> /\ keep_expr = Unset /\ exclude_expr = Unset
CliIdle == argv = <<>> /\ ns = <<>> /\ kwargs = <<>> /\ bound = <<>> /\ cmd_t = Unset

InitFilter ==
    /\ sel \in PidLists
    /\ keep_expr = Unset /\ exclude_expr = Unset
    /\ OrchIdle /\ ReadIdle /\ CliIdle

build_keep ==
    /\ keep_expr = Unset
    /\ keep_expr' = select_filter(<<>>, sel).filter_str
    /\ UNCHANGED <<sel, exclude_expr, orch_vars, read_vars, cli_vars>>

build_exclude ==
    /\ exclude_expr = Unset
    /\ exclude_expr' = select_filter(sel, <<>>).filter_str
    /\ UNCHANGED <<sel, keep_expr, orch_vars, read_vars, cli_vars>>

NextFilter == build_keep \/ build_exclude
SpecFilter == InitFilter /\ [][NextFilter]_vars

\* C6: for a non-empty PID list the exclude filter is "!" followed by the whole
\* parenthesised keep filter of the same list, and every packet is admitted
\* by exactly one of the two.
ExcludeIsNegatedKeep ==
    (sel # <<>> /\ keep_expr # Unset /\ exclude_expr # Unset) =>
        /\ exclude_expr = <<"!">> \o keep_expr
        /\ keep_expr[1] = "(" /\ keep_expr[Len(keep_expr)] = ")"
        /\ \A i \in 1..(Len(keep_expr) - 1) : Depth(keep_expr, i) > 0
        /\ \A pkt \in PacketPids :
              Admits(exclude_expr, pkt) <=> ~Admits(keep_expr, pkt)
ExcludeIsNegatedKeepWitness ==
    /\ sel = <<0, 17>>
    /\ keep_expr # Unset /\ exclude_expr # Unset
    /\ Admits(keep_expr, 17) /\ ~Admits(exclude_expr, 17)
    /\ ~Admits(keep_expr, 1) /\ Admits(exclude_expr, 1)

\* C7: for a non-empty list of distinct non-negative PIDs the keep filter is
\* |S| comparisons joined by "||", one per PID of S and none for another PID,
\* each PID in lowercase hexadecimal, padded with zeros to two digits and no
\* further.
KeepHasOnePredicatePerPid ==
    (keep_expr # Unset /\ sel # <<>> /\ Distinct(sel) /\ \A i \in 1..Len(sel) : sel[i] >= 0) =>
        LET cs == Comparisons(keep_expr) IN
        /\ Len(cs) = Cardinality(Range(sel))
        /\ \A i \in 1..Len(cs) :
              /\ IsPrefix(FieldText, cs[i])
              /\ IsHexLiteral(Literal(cs[i]))
              /\ Len(Literal(cs[i])) >= 2
              /\ Len(Literal(cs[i])) > 2 => Literal(cs[i])[1] # "0"
        /\ {HexValue(Literal(cs[i]), 0) : i \in 1..Len(cs)} = Range(sel)
        /\ \A pkt \in PacketPids : Admits(keep_expr, pkt) <=> pkt \in Range(sel)
KeepHasOnePredicatePerPidWitness ==
    /\ sel = <<8191, 0>>
    /\ keep_expr # Unset
    /\ Len(Comparisons(keep_expr)) = 2
    /\ Literal(Comparisons(keep_expr)[1]) = <<"1", "f", "f", "f">>
    /\ Literal(Comparisons(keep_expr)[2]) = <<"0", "0">>

(***************************************************************************)
(* The two capture functions.  A call runs from its entry to "done"; the   *)
(* file tmp.ts outlives the call.  The external tools answer as the        *)
(* environment decides: exit status 0, a non-zero exit status, or the      *)
(* program cannot be started (subprocess.call raises OSError).             *)
(***************************************************************************)
Text_DVBC == <<"D", "V", "B", "C", "/", "A", "N", "N", "E", "X", "_", "A">>
Text_474000000 == <<"4", "7", "4", "0", "0", "0", "0", "0", "0">>
Text_6900000 == <<"6", "9", "0", "0", "0", "0", "0">>
Text_NONE == <<"N", "O", "N", "E">>
Text_QAM256 == <<"Q", "A", "M", "2", "5", "6">>
Text_OFF == <<"O", "F", "F">>
GoodOptions ==
    [k \in Keys |->
        CASE k = "DELIVERY_SYSTEM" -> Text_DVBC
          [] k = "FREQUENCY" -> Text_474000000
          [] k = "SYMBOL_RATE" -> Text_6900000
          [] k = "INNER_FEC" -> Text_NONE
          [] k = "MODULATION" -> Text_QAM256
          [] k = "INVERSION" -> Text_OFF]
OrchOptions ==
    { GoodOptions,
      [GoodOptions EXCEPT !["FREQUENCY"] = <<"x">>],
      [GoodOptions EXCEPT !["INNER_FEC"] = Missing] }
OrchSections == [name : {"Mux1", "Mux2", "Mux3"}, options : OrchOptions]
OrchConfigs == SeqsUpTo(OrchSections, MaxSections)
OrchPidLists == {<<>>, <<0>>, <<17, 8191>>}

DefaultPrefix == "Capture"
DefaultPath == "."
DefaultDuration == 45
Hz_per_MHz == 1000000
ConfigFile == "downstreams.conf"
TmpFile == <<"tmp.ts">>

Event(ev, ch, rc, data, arg) == [ev |-> ev, ch |-> ch, rc |-> rc, data |-> data, arg |-> arg]

\* line 84 / line 119
output_file_name(a, ch, ext) ==
    <<a.path, "/", a.prefix, "_", ch.name, "_">>
        \o str_int(ch.frequency \div Hz_per_MHz) \o <<ext>>

\* lines 86-91 / lines 121-126
capture_cmd(a, ch, out) ==
    << <<"/usr/bin/dvbv5-zap">>, <<"-c">>, <<a.config_file>>, <<"-P">>, <<"-t">>,
       str_int(a.duration), <<ch.name>>, <<"-o">>, out >>

\* lines 131-134
filter_cmd(fs, out) ==
    << <<"/usr/bin/tshark">>, <<"-r">>, TmpFile, <<"-R">>, fs, <<"-2">>, <<"-w">>, out >>

OrchInit ==
    /\ pc = "idle" /\ mode = "none" /\ args = <<>> /\ filter_str = <<>>
    /\ gen = NoGenerator /\ channel = NoChannel
    /\ tmp_ts = "absent" /\ tmp0 = "absent" /\ log = <<>>
    /\ created = {} /\ removed = {} /\ result = "none" /\ printed = <<>>

Init == OrchInit /\ ReadIdle /\ FiltIdle /\ CliIdle

\* dvb_record_filtered_channels(channel_config, config_file, skip_pids=, pids=)
\* up to the for statement
dvb_record_filtered_channels ==
    /\ pc = "idle"
    /\ \E cfg \in OrchConfigs, skip_pids \in OrchPidLists, pids \in OrchPidLists :
         LET f == select_filter(skip_pids, pids) IN
         /\ mode' = "filtered"
         /\ args' = [channel_config |-> cfg, config_file |-> ConfigFile,
                     verbose |-> FALSE, prefix |-> DefaultPrefix, path |-> DefaultPath,
                     duration |-> DefaultDuration, skip_pids |-> skip_pids, pids |-> pids]
         /\ filter_str' = f.filter_str
         /\ IF f.abort
            THEN /\ printed' = <<AbortMessage>>
                 /\ result' = "returned"
                 /\ pc' = "done"
                 /\ gen' = NoGenerator
            ELSE /\ printed' = <<>>
                 /\ result' = "running"
                 /\ pc' = "for"
                 /\ gen' = NewGenerator
    /\ channel' = NoChannel
    /\ tmp0' = tmp_ts
    /\ log' = <<>> /\ created' = {} /\ removed' = {}
    /\ UNCHANGED <<tmp_ts, read_vars, filt_vars, cli_vars>>

\* dvb_record_raw_channels(channel_config, config_file) up to the for statement
dvb_record_raw_channels ==
    /\ pc = "idle"
    /\ \E cfg \in OrchConfigs :
         args' = [channel_config |-> cfg, config_file |-> ConfigFile,
                  verbose |-> FALSE, prefix |-> DefaultPrefix, path |-> DefaultPath,
                  duration |-> DefaultDuration]
    /\ mode' = "raw"
    /\ filter_str' = <<>>
    /\ printed' = <<>>
    /\ result' = "running"
    /\ pc' = "for"
    /\ gen' = NewGenerator
    /\ channel' = NoChannel
    /\ tmp0' = tmp_ts
    /\ log' = <<>> /\ created' = {} /\ removed' = {}
    /\ UNCHANGED <<tmp_ts, read_vars, filt_vars, cli_vars>>

\* for channel in read_channels(channel_config): the next channel, the end of
\* the loop, or the exception the generator raises
for_channel(r) ==
    /\ gen' = r.gen
    /\ IF r.raised # "none"
       THEN /\ result' = r.raised /\ pc' = "done" /\ channel' = channel
       ELSE IF r.stop
       THEN /\ result' = "returned" /\ pc' = "done" /\ channel' = channel
       ELSE /\ result' = result /\ pc' = "capture" /\ channel' = r.value
    /\ UNCHANGED <<mode, args, filter_str, tmp_ts, tmp0, log, created, removed,
                   printed, read_vars, filt_vars, cli_vars>>

raw_for ==
    /\ pc = "for" /\ mode = "raw"
    /\ for_channel(read_channels(gen, args.channel_config))

filtered_for ==
    /\ pc = "for" /\ mode = "filtered"
    /\ for_channel(read_channels(gen, args.channel_config))

\* lines 83-93: the capture writes the output file itself
raw_capture ==
    /\ pc = "capture" /\ mode = "raw"
    /\ LET out == output_file_name(args, channel, ".ts")
           cmd == capture_cmd(args, channel, out)
           invoked == Event("capture-invoked", channel.name, -1, "-", cmd)
       IN \E outcome \in {"ok", "failed", "oserror"} :
            /\ log' = IF outcome = "oserror" THEN Append(log, invoked)
                      ELSE log \o <<invoked,
                             Event("capture-returned", channel.name,
                                   IF outcome = "ok" THEN 0 ELSE 1, "-", cmd)>>
            /\ created' = IF outcome = "ok" THEN created \cup {out} ELSE created
            /\ result' = IF outcome = "oserror" THEN "OSError" ELSE result
            /\ pc' = IF outcome = "oserror" THEN "done" ELSE "for"
    /\ UNCHANGED <<mode, args, filter_str, gen, channel, tmp_ts, tmp0, removed,
                   printed, read_vars, filt_vars, cli_vars>>

\* lines 118-128: the capture writes tmp.ts; a capture that fails may have
\* written nothing
filtered_capture ==
    /\ pc = "capture" /\ mode = "filtered"
    /\ LET cmd == capture_cmd(args, channel, TmpFile)
           invoked == Event("capture-invoked", channel.name, -1, "-", cmd)
       IN \E outcome \in {"ok", "failed", "failed_partial", "oserror"} :
            /\ log' = IF outcome = "oserror" THEN Append(log, invoked)
                      ELSE log \o <<invoked,
                             Event("capture-returned", channel.name,
                                   IF outcome = "ok" THEN 0 ELSE 1, "-", cmd)>>
            /\ tmp_ts' = IF outcome \in {"ok", "failed_partial"} THEN channel.name
                         ELSE tmp_ts
            /\ created' = IF outcome \in {"ok", "failed_partial"}
                          THEN created \cup {TmpFile} ELSE created
            /\ result' = IF outcome = "oserror" THEN "OSError" ELSE result
            /\ pc' = IF outcome = "oserror" THEN "done" ELSE "filter"
    /\ UNCHANGED <<mode, args, filter_str, gen, channel, tmp0, removed,
                   printed, read_vars, filt_vars, cli_vars>>

\* lines 131-137: the filter reads whatever tmp.ts holds
filtered_filter ==
    /\ pc = "filter" /\ mode = "filtered"
    /\ LET out == output_file_name(args, channel, ".pcapng")
           cmd == filter_cmd(filter_str, out)
           invoked == Event("filter-invoked", channel.name, -1, tmp_ts, cmd)
       IN \E outcome \in {"ok", "failed", "oserror"} :
            /\ outcome = "ok" => tmp_ts # "absent"
            /\ log' = IF outcome = "oserror" THEN Append(log, invoked)
                      ELSE log \o <<invoked,
                             Event("filter-returned", channel.name,
                                   IF outcome = "ok" THEN 0 ELSE 1, "-", cmd)>>
            /\ created' = IF outcome = "ok" THEN created \cup {out} ELSE created
            /\ result' = IF outcome = "oserror" THEN "OSError" ELSE result
            /\ pc' = IF outcome = "oserror" THEN "done" ELSE "remove"
    /\ UNCHANGED <<mode, args, filter_str, gen, channel, tmp_ts, tmp0, removed,
                   printed, read_vars, filt_vars, cli_vars>>

\* line 139: os.remove('tmp.ts')
filtered_remove ==
    /\ pc = "remove" /\ mode = "filtered"
    /\ IF tmp_ts = "absent"
       THEN /\ result' = "FileNotFoundError" /\ pc' = "done"
            /\ UNCHANGED <<tmp_ts, removed, log>>
       ELSE /\ tmp_ts' = "absent"
            /\ removed' = removed \cup {TmpFile}
            /\ log' = Append(log, Event("tmp-removed", channel.name, -1, "-", <<>>))
            /\ pc' = "for"
            /\ UNCHANGED result
    /\ UNCHANGED <<mode, args, filter_str, gen, channel, tmp0, created,
                   printed, read_vars, filt_vars, cli_vars>>

\* the call is over (the script ends after args.func(...)): its locals are
\* gone, the files stay
script_exit ==
    /\ pc = "done"
    /\ pc' = "idle" /\ mode' = "none" /\ args' = <<>> /\ filter_str' = <<>>
    /\ gen' = NoGenerator /\ channel' = NoChannel
    /\ tmp0' = "absent" /\ log' = <<>>
    /\ created' = {} /\ removed' = {} /\ result' = "none" /\ printed' = <<>>
    /\ UNCHANGED <<tmp_ts, read_vars, filt_vars, cli_vars>>

Next ==
    \/ dvb_record_filtered_channels
    \/ dvb_record_raw_channels
    \/ raw_for
    \/ filtered_for
    \/ raw_capture
    \/ filtered_capture
    \/ filtered_filter
    \/ filtered_remove
    \/ script_exit

Spec == Init /\ [][Next]_vars

(***************************************************************************)
(* Properties of the capture functions.                                    *)
(***************************************************************************)
ParseErrors == {"KeyError", "ValueError", "DuplicateSectionError", "DuplicateOptionError"}
Events(kind) == {i \in 1..Len(log) : log[i].ev = kind}
Invocations == Events("capture-invoked") \cup Events("filter-invoked")
Returns == Events("capture-returned") \cup Events("filter-returned")

\* C1: a call that ends with a parse error of the channel file has invoked no
\* external process, whatever the position of the malformed section.
ParseErrorBeforeAnyProcess ==
    (pc = "done" /\ result \in ParseErrors) => Invocations = {}

\* C2: when a filtered call that invoked a capture returns or raises, no
\* tmp.ts is left on disk.
TmpRemovedWhenFilteredEnds ==
    (pc = "done" /\ mode = "filtered" /\ Events("capture-invoked") # {}) =>
        tmp_ts = "absent"

\* C3: a filtered call with non-empty pids and non-empty skip_pids prints the
\* abort message and returns; it never reads the channel file, invokes no
\* external process and creates or removes no file.
BothListsRejected ==
    (mode = "filtered" /\ pc # "idle" /\ args.skip_pids # <<>> /\ args.pids # <<>>) =>
        /\ pc = "done"
        /\ result = "returned"
        /\ printed = <<AbortMessage>>
        /\ gen = NoGenerator
        /\ log = <<>>
        /\ created = {} /\ removed = {}
        /\ tmp_ts = tmp0
BothListsRejectedWitness ==
    /\ mode = "filtered" /\ pc = "done"
    /\ args.skip_pids = <<0>> /\ args.pids = <<17, 8191>>
    /\ Len(args.channel_config) = MaxSections
    /\ printed = <<AbortMessage>>
    /\ tmp0 # "absent"

\* C4: a non-zero exit status of an external tool reaches the caller (a call
\* in which some tool failed does not end like one in which all succeeded),
\* and the filter is invoked only after a capture that exited with status 0.
ExitStatusPropagated ==
    /\ (pc = "done" /\ \E i \in Returns : log[i].rc # 0) => result # "returned"
    /\ \A i \in Events("filter-invoked") :
          i > 1 /\ log[i - 1].ev = "capture-returned" /\ log[i - 1].rc = 0

\* C8: with no keep PID and no exclude PID the call either fails with a
\* configuration error or filters with an expression that admits every packet;
\* the filter tool is never handed the empty disjunction.
EmptySelectorHandled ==
    (mode = "filtered" /\ pc # "idle" /\ args.skip_pids = <<>> /\ args.pids = <<>>) =>
        \A i \in Events("filter-invoked") :
            /\ log[i].arg[5] # <<"(", ")">>
            /\ \A pkt \in PacketPids : Admits(log[i].arg[5], pkt)

\* The order of the events of a filtered call: capture-invoked,
\* capture-returned, filter-invoked, filter-returned, tmp-removed per channel,
\* and the next capture only after tmp.ts was removed.
SequentialOrder ==
    mode = "filtered" =>
        \A i \in 1..Len(log) :
            LET follows(kind) == i > 1 /\ log[i - 1].ev = kind /\ log[i - 1].ch = log[i].ch
            IN CASE log[i].ev = "capture-invoked" -> i = 1 \/ log[i - 1].ev = "tmp-removed"
                 [] log[i].ev = "capture-returned" -> follows("capture-invoked")
                 [] log[i].ev = "filter-invoked" -> follows("capture-returned")
                 [] log[i].ev = "filter-returned" -> follows("filter-invoked")
                 [] log[i].ev = "tmp-removed" -> follows("filter-returned")

\* C9: a filtered call is sequential (the order above), and the filter of a
\* channel never reads data captured for another channel.
SequentialAndIsolated ==
    /\ SequentialOrder
    /\ mode = "filtered" =>
          \A i \in Events("filter-invoked") : log[i].data \in {"absent", log[i].ch}

(***************************************************************************)
(* read_channels alone: a consumer draws from the generator until it ends  *)
(* or raises.                                                              *)
(***************************************************************************)
ReadOptions ==
    { GoodOptions,
      [GoodOptions EXCEPT !["FREQUENCY"] = <<"0", "8">>,
                          !["DELIVERY_SYSTEM"] = <<"D", "v", "b", "-", "C", "2">>],
      [GoodOptions EXCEPT !["FREQUENCY"] = <<"x">>],
      [GoodOptions EXCEPT !["SYMBOL_RATE"] = <<"4", "_", "7">>],
      [GoodOptions EXCEPT !["INNER_FEC"] = Missing],
      [NoOptions EXCEPT !["INNER_FEC"] = Text_NONE] }
ReadSections == [name : {"Mux1", "Mux2", DefaultSection}, options : ReadOptions]
ReadConfigs == SeqsUpTo(ReadSections, MaxReadSections)

InitRead ==
    /\ \E cfg \in ReadConfigs : args = [channel_config |-> cfg]
    /\ pc = "for" /\ mode = "none" /\ filter_str = <<>>
    /\ gen = NewGenerator /\ channel = NoChannel
    /\ tmp_ts = "absent" /\ tmp0 = "absent" /\ log = <<>>
    /\ created = {} /\ removed = {} /\ result = "running" /\ printed = <<>>
    /\ yielded = <<>>
    /\ FiltIdle /\ CliIdle

\* next(read_channels(channels))
read_channels_next ==
    /\ pc = "for"
    /\ LET r == read_channels(gen, args.channel_config) IN
       /\ gen' = r.gen
       /\ IF r.raised # "none"
          THEN /\ result' = r.raised /\ pc' = "done" /\ UNCHANGED yielded
          ELSE IF r.stop
          THEN /\ result' = "returned" /\ pc' = "done" /\ UNCHANGED yielded
          ELSE /\ yielded' = Append(yielded, r.value) /\ UNCHANGED <<pc, result>>
    /\ UNCHANGED <<mode, args, filter_str, channel, tmp_ts, tmp0, log, created,
                   removed, printed, filt_vars, cli_vars>>

NextRead == read_channels_next
SpecRead == InitRead /\ [][NextRead]_vars

\* What the channel file says, read without the program's conversions.
IsUpper(c) == \E k \in 1..26 : UpperCase[k] = c
SameLetter(a, b) == a = b \/ \E k \in 1..26 : {a, b} = {UpperCase[k], LowerCase[k]}
IsLowerOf(low, text) ==
    /\ Len(low) = Len(text)
    /\ \A i \in 1..Len(text) : ~IsUpper(low[i]) /\ SameLetter(low[i], text[i])
IsDecimal(text) == text # <<>> /\ \A i \in 1..Len(text) : IsDigit(text[i])
RECURSIVE Pow10(_)
Pow10(n) == IF n = 0 THEN 1 ELSE 10 * Pow10(n - 1)
RECURSIVE SumTo(_, _)
SumTo(f, n) == IF n = 0 THEN 0 ELSE f[n] + SumTo(f, n - 1)
DecimalValue(text) ==
    SumTo([i \in 1..Len(text) |-> DigitValue(text[i]) * Pow10(Len(text) - i)], Len(text))
ValidSection(s) ==
    /\ \A k \in Keys : s.options[k] # Missing
    /\ IsDecimal(s.options["FREQUENCY"])
    /\ IsDecimal(s.options["SYMBOL_RATE"])
ValidConfig(cfg) ==
    /\ \A i \in 1..Len(cfg) : ValidSection(cfg[i])
    /\ \A i, j \in 1..Len(cfg) : i # j => cfg[i].name # cfg[j].name
Describes(ch, s) ==
    /\ ch.name = s.name
    /\ ch.frequency = DecimalValue(s.options["FREQUENCY"])
    /\ ch.symbol_rate = DecimalValue(s.options["SYMBOL_RATE"])
    /\ IsLowerOf(ch.delivery_system, s.options["DELIVERY_SYSTEM"])

\* C5: for a valid channel file of N sections read_channels yields N channels,
\* the i-th with the name of the i-th section, the integers written in its
\* FREQUENCY and SYMBOL_RATE and its DELIVERY_SYSTEM in lower case.
YieldsEverySectionInOrder ==
    (pc = "done" /\ ValidConfig(args.channel_config)) =>
        /\ result = "returned"
        /\ Len(yielded) = Len(args.channel_config)
        /\ \A i \in 1..Len(yielded) : Describes(yielded[i], args.channel_config[i])

\* The same for the channel files that have no section named DEFAULT.
YieldsEveryNamedSectionInOrder ==
    (/\ pc = "done"
     /\ ValidConfig(args.channel_config)
     /\ \A i \in 1..Len(args.channel_config) :
           args.channel_config[i].name # DefaultSection) =>
        /\ result = "returned"
        /\ Len(yielded) = Len(args.channel_config)
        /\ \A i \in 1..Len(yielded) : Describes(yielded[i], args.channel_config[i])

(***************************************************************************)
(* The script: argparse, the logging set-up, and the call of the chosen    *)
(* function with the truthy attributes of the Namespace as keywords.       *)
(***************************************************************************)
Given(v) == [given |-> TRUE, value |-> v]
NotGivenInt == [given |-> FALSE, value |-> 0]
NotGivenStr == [given |-> FALSE, value |-> ""]
NotGivenList == [given |-> FALSE, value |-> <<>>]
CliDurations == {0, 30, 45}
CliStrings == {"", "Rec"}
CliPidLists == {<<0>>, <<17, 8191>>}
CommandLines ==
    [command : {"", "raw", "filtered"},
     verbose : BOOLEAN,
     duration : {NotGivenInt} \cup {Given(d) : d \in CliDurations},
     prefix : {NotGivenStr} \cup {Given(x) : x \in CliStrings},
     path : {NotGivenStr} \cup {Given(x) : x \in CliStrings},
     pids : {NotGivenList} \cup {Given(l) : l \in CliPidLists},
     skip_pids : {NotGivenList} \cup {Given(l) : l \in CliPidLists}]

\* a list attribute of the Namespace: None or a list
NoneList == [none |-> TRUE, list |-> <<>>]
List(l) == [none |-> FALSE, list |-> l]
EmptyNamespace ==
    [func |-> "", has_options |-> FALSE, has_pids |-> FALSE, verbose |-> FALSE,
     duration |-> 0, prefix |-> "", path |-> "", pids |-> NoneList,
     skip_pids |-> NoneList]
\* a keyword argument: passed or not
Passed(v) == [passed |-> TRUE, value |-> v]
NotPassed(v) == [passed |-> FALSE, value |-> v]

InitCLI ==
    /\ argv \in CommandLines
    /\ ns = <<>> /\ kwargs = <<>> /\ bound = <<>> /\ cmd_t = Unset
    /\ pc = "parse_args" /\ mode = "none" /\ args = <<>> /\ filter_str = <<>>
    /\ gen = NoGenerator /\ channel = NoChannel
    /\ tmp_ts = "absent" /\ tmp0 = "absent" /\ log = <<>>
    /\ created = {} /\ removed = {} /\ result = "running" /\ printed = <<>>
    /\ ReadIdle /\ FiltIdle

cli_unchanged == <<mode, args, filter_str, gen, channel, tmp_ts, tmp0, log,
                   created, removed, printed, read_vars, filt_vars>>

\* lines 143-174: parser.parse_args()
parse_args ==
    /\ pc = "parse_args"
    /\ IF argv.command = ""
       THEN /\ ns' = EmptyNamespace
            /\ pc' = "logging" /\ UNCHANGED result
       ELSE IF argv.command = "raw" /\ (argv.pids.given \/ argv.skip_pids.given)
       THEN /\ ns' = ns
            /\ pc' = "exit" /\ result' = "SystemExit"
       ELSE /\ ns' = [func |-> argv.command,
                      has_options |-> TRUE,
                      has_pids |-> argv.command = "filtered",
                      verbose |-> argv.verbose,
                      duration |-> IF argv.duration.given THEN argv.duration.value
                                   ELSE DefaultDuration,
                      prefix |-> IF argv.prefix.given THEN argv.prefix.value
                                 ELSE DefaultPrefix,
                      path |-> IF argv.path.given THEN argv.path.value
                               ELSE DefaultPath,
                      pids |-> IF argv.pids.given THEN List(argv.pids.value)
                               ELSE NoneList,
                      skip_pids |-> IF argv.skip_pids.given
                                    THEN List(argv.skip_pids.value) ELSE NoneList]
            /\ pc' = "logging" /\ UNCHANGED result
    /\ UNCHANGED <<argv, kwargs, bound, cmd_t, cli_unchanged>>

\* lines 176-180: args.verbose of a Namespace without it raises
logging_setup ==
    /\ pc = "logging"
    /\ IF ns.has_options
       THEN pc' = "dispatch" /\ UNCHANGED result
       ELSE pc' = "exit" /\ result' = "AttributeError"
    /\ UNCHANGED <<argv, ns, kwargs, bound, cmd_t, cli_unchanged>>

\* lines 182-185: {k: v for k, v in args.__dict__.items() if v and k != 'func'}
keep_truthy(present, truthy, v) == IF present /\ truthy THEN Passed(v) ELSE NotPassed(v)
dispatch ==
    /\ pc = "dispatch"
    /\ kwargs' =
         [verbose |-> keep_truthy(TRUE, ns.verbose, ns.verbose),
          duration |-> keep_truthy(TRUE, ns.duration # 0, ns.duration),
          prefix |-> keep_truthy(TRUE, ns.prefix # "", ns.prefix),
          path |-> keep_truthy(TRUE, ns.path # "", ns.path),
          pids |-> keep_truthy(ns.has_pids, ~ns.pids.none /\ ns.pids.list # <<>>,
                               ns.pids.list),
          skip_pids |-> keep_truthy(ns.has_pids,
                                    ~ns.skip_pids.none /\ ns.skip_pids.list # <<>>,
                                    ns.skip_pids.list)]
    /\ pc' = "call"
    /\ UNCHANGED <<argv, ns, bound, cmd_t, result, cli_unchanged>>

\* lines 73-78 / 96-103: a parameter is the keyword passed, else its default;
\* line 89 / 124: '-t', str(duration)
param(kw, default) == IF kw.passed THEN kw.value ELSE default
call_func ==
    /\ pc = "call"
    /\ bound' = [func |-> ns.func,
                 verbose |-> param(kwargs.verbose, FALSE),
                 prefix |-> param(kwargs.prefix, DefaultPrefix),
                 path |-> param(kwargs.path, DefaultPath),
                 duration |-> param(kwargs.duration, DefaultDuration),
                 skip_pids |-> param(kwargs.skip_pids, <<>>),
                 pids |-> param(kwargs.pids, <<>>)]
    /\ cmd_t' = str_int(param(kwargs.duration, DefaultDuration))
    /\ pc' = "called"
    /\ UNCHANGED <<argv, ns, kwargs, result, cli_unchanged>>

NextCLI == parse_args \/ logging_setup \/ dispatch \/ call_func
SpecCLI == InitCLI /\ [][NextCLI]_vars

\* C10: every option the user supplied reaches the capture function with the
\* value supplied; a supplied duration reaches the capture tool as that number.
SuppliedValueReachesFunction ==
    pc = "called" =>
        /\ argv.duration.given =>
              /\ bound.duration = argv.duration.value
              /\ IsDecimal(cmd_t) /\ DecimalValue(cmd_t) = argv.duration.value
        /\ argv.prefix.given => bound.prefix = argv.prefix.value
        /\ argv.path.given => bound.path = argv.path.value
        /\ argv.pids.given => bound.pids = argv.pids.value
        /\ argv.skip_pids.given => bound.skip_pids = argv.skip_pids.value
        /\ bound.verbose = argv.verbose

\* The same for the options supplied with a truthy value.
TruthyValueReachesFunction ==
    pc = "called" =>
        /\ (argv.duration.given /\ argv.duration.value # 0) =>
              /\ bound.duration = argv.duration.value
              /\ IsDecimal(cmd_t) /\ DecimalValue(cmd_t) = argv.duration.value
        /\ (argv.prefix.given /\ argv.prefix.value # "") => bound.prefix = argv.prefix.value
        /\ (argv.path.given /\ argv.path.value # "") => bound.path = argv.path.value
        /\ argv.pids.given => bound.pids = argv.pids.value
        /\ argv.skip_pids.given => bound.skip_pids = argv.skip_pids.value
        /\ bound.verbose = argv.verbose

====
